---------------------------- MODULE Spec2Model ----------------------------
(***************************************************************************)
(* Model of format_bridge_bot_output.py (WeeChat script, version 0.4.0).   *)
(*                                                                         *)
(* A string is a sequence of len() units: one-character strings for ASCII, *)
(* and named units for what is not ASCII.  Under Python 2 (PY2) the script *)
(* handles UTF-8 byte strings, so a non-ASCII character is several units   *)
(* ("xE2","x80","x8B" is the zero-width space); under Python 3 it is one   *)
(* unit ("U200B").  The text of a regular expression is carried as a single   *)
(* opaque unit: the script only tests it for emptiness and hands it to     *)
(* re.compile, whose behaviour is given pattern by pattern.                *)
(***************************************************************************)
EXTENDS Integers, Sequences, FiniteSets, TLC

VARIABLES
    PY2,           \* sys.version_info < (3,): which build runs the script
    options,       \* WeeChat's plugin options of this script: name -> value
    settings_lst,  \* the script's global list of option groups (rules)
    frame          \* the last handler that ran, with msg_cb's locals and result

vars == <<PY2, options, settings_lst, frame>>

---------------------------------------------------------------------------
(* Python string primitives, on sequences of units.                        *)

\* The whitespace of a Python 3 str that a byte string does not have: each
\* is one unit of a str and several bytes, none of them whitespace, of a
\* Python 2 byte string.
UnicodeSpace ==
    {"U001C", "U001D", "U001E", "U001F", "U0085", "U00A0", "U1680", "U2000",
     "U2001", "U2002", "U2003", "U2004", "U2005", "U2006", "U2007", "U2008",
     "U2009", "U200A", "U2028", "U2029", "U202F", "U205F", "U3000"}

\* The whitespace of both, with the vertical tab as the unit x0B.
Whitespace == {" ", "\t", "\n", "\r", "\f", "x0B"} \cup UnicodeSpace

\* str.isspace() of one unit: the whitespace str.strip()/split() drop.
IsSpace(u) == u \in Whitespace

\* s[i:j] with 0 <= i, Python's half-open slice: a negative j counts from the
\* end, and both ends are clipped to the string.
Slice(s, i, j) ==
    LET jj == IF j < 0 THEN Len(s) + j ELSE j
        hi == IF jj > Len(s) THEN Len(s) ELSE jj
    IN  IF i >= hi THEN <<>> ELSE SubSeq(s, i + 1, hi)

\* s.startswith(lit, i): lit occurs in s at 0-based offset i.
StartsAt(s, i, lit) ==
    /\ i + Len(lit) <= Len(s)
    /\ \A k \in 1..Len(lit) : s[i + k] = lit[k]

RECURSIVE LStrip(_)
LStrip(s) == IF s # <<>> /\ IsSpace(Head(s)) THEN LStrip(Tail(s)) ELSE s

RECURSIVE RStrip(_)
RStrip(s) ==
    IF s # <<>> /\ IsSpace(s[Len(s)]) THEN RStrip(SubSeq(s, 1, Len(s) - 1)) ELSE s

\* str.strip()
strip(s) == RStrip(LStrip(s))

\* str.split(sep) for a one-unit separator: always at least one piece.
RECURSIVE SplitFrom(_, _, _)
SplitFrom(s, sep, cur) ==
    IF s = <<>> THEN <<cur>>
    ELSE IF Head(s) = sep THEN <<cur>> \o SplitFrom(Tail(s), sep, <<>>)
    ELSE SplitFrom(Tail(s), sep, Append(cur, Head(s)))

split(s, sep) == SplitFrom(s, sep, <<>>)

\* str.split() without separator: the runs of non-whitespace units.
RECURSIVE SplitWsFrom(_, _)
SplitWsFrom(s, cur) ==
    IF s = <<>> THEN (IF cur = <<>> THEN <<>> ELSE <<cur>>)
    ELSE IF IsSpace(Head(s))
         THEN (IF cur = <<>> THEN <<>> ELSE <<cur>>) \o SplitWsFrom(Tail(s), <<>>)
         ELSE SplitWsFrom(Tail(s), Append(cur, Head(s)))

split_ws(s) == SplitWsFrom(s, <<>>)

\* ''.join(pieces)
RECURSIVE join(_)
join(pieces) == IF pieces = <<>> THEN <<>> ELSE Head(pieces) \o join(Tail(pieces))

\* str.replace(old, new): every non-overlapping occurrence, left to right;
\* an empty old matches before every unit and at the end.
RECURSIVE ReplaceFrom(_, _, _)
ReplaceFrom(s, old, new) ==
    IF s = <<>> THEN <<>>
    ELSE IF StartsAt(s, 0, old)
         THEN new \o ReplaceFrom(Slice(s, Len(old), Len(s)), old, new)
         ELSE <<Head(s)>> \o ReplaceFrom(Tail(s), old, new)

RECURSIVE Intersperse(_, _)
Intersperse(s, new) ==
    IF s = <<>> THEN new ELSE new \o <<Head(s)>> \o Intersperse(Tail(s), new)

replace(s, old, new) ==
    IF old = <<>> THEN Intersperse(s, new) ELSE ReplaceFrom(s, old, new)

\* x in list
InList(x, lst) == \E i \in 1..Len(lst) : lst[i] = x

\* [f(x) for x in lst]
RECURSIVE MapStrip(_)
MapStrip(lst) ==
    IF lst = <<>> THEN <<>> ELSE <<strip(Head(lst))>> \o MapStrip(Tail(lst))

\* The whitespace int() drops.  Of a Python 2 byte string it is the ASCII
\* whitespace; of a Python 3 str it is that and the whitespace above U+007E,
\* but not the separators U+001C to U+001F that str.strip() drops.
AsciiSpace == {" ", "\t", "\n", "\r", "\f", "x0B"}

IntSpace(py2) ==
    IF py2 THEN AsciiSpace
    ELSE AsciiSpace \cup (UnicodeSpace \ {"U001C", "U001D", "U001E", "U001F"})

RECURSIVE LStripOf(_, _)
LStripOf(s, W) == IF s # <<>> /\ Head(s) \in W THEN LStripOf(Tail(s), W) ELSE s

RECURSIVE RStripOf(_, _)
RStripOf(s, W) ==
    IF s # <<>> /\ s[Len(s)] \in W THEN RStripOf(SubSeq(s, 1, Len(s) - 1), W) ELSE s

\* int(s) of a string.  Python 2: surrounding whitespace dropped, an optional
\* sign, whitespace again, then decimal digits.  Python 3: surrounding
\* whitespace dropped, an optional sign, then decimal digits (of any script:
\* the Arabic-Indic ones stand for them) with single underscores between them.
\* Anything else raises ValueError.
Digits == <<"0", "1", "2", "3", "4", "5", "6", "7", "8", "9">>

UnicodeDigits ==
    <<"U0660", "U0661", "U0662", "U0663", "U0664", "U0665", "U0666", "U0667",
      "U0668", "U0669">>

IsDigit(u, py2) == InList(u, Digits) \/ (~py2 /\ InList(u, UnicodeDigits))

DigitValue(u) == (CHOOSE i \in 1..10 : Digits[i] = u \/ UnicodeDigits[i] = u) - 1

RECURSIVE DecimalValue(_, _)
DecimalValue(s, acc) ==
    IF s = <<>> THEN acc
    ELSE IF Head(s) = "_" THEN DecimalValue(Tail(s), acc)
    ELSE DecimalValue(Tail(s), 10 * acc + DigitValue(Head(s)))

int(s, py2) ==
    LET W      == IntSpace(py2)
        t      == RStripOf(LStripOf(s, W), W)
        signed == t # <<>> /\ Head(t) \in {"+", "-"}
        rest   == IF signed THEN Tail(t) ELSE t
        body   == IF py2 THEN LStripOf(rest, W) ELSE rest
        valid  == /\ body # <<>>
                  /\ \A i \in 1..Len(body) :
                        \/ IsDigit(body[i], py2)
                        \/ /\ ~py2 /\ body[i] = "_"
                           /\ 1 < i /\ i < Len(body)
                           /\ IsDigit(body[i - 1], py2) /\ IsDigit(body[i + 1], py2)
    IN  IF ~valid THEN [ok |-> FALSE, value |-> 0]
        ELSE [ok |-> TRUE,
              value |-> IF signed /\ Head(t) = "-" THEN 0 - DecimalValue(body, 0)
                                                   ELSE DecimalValue(body, 0)]

---------------------------------------------------------------------------
(* Python's re module, for the patterns an administrator is modelled to    *)
(* configure.  The first is the example of the script's help text.         *)

\* /help format_bridge_bot_output_add-regex: with the action group.
RegexAction ==
    <<"(?P<action>(?:^[\\x01]ACTION |^))\\((?P<network>(?:slack|discord))\\) <(?P<nick>.+?)> (?P<text>.*)">>

\* The same pattern without the optional action group.
RegexPlain == <<"\\((?P<network>(?:slack|discord))\\) <(?P<nick>.+?)> (?P<text>.*)">>

\* A pattern that lacks the required group 'nick'.
RegexNoNick == <<"\\((?P<network>(?:slack|discord))\\) (?P<text>.*)">>

\* Not a regular expression: an unbalanced parenthesis.
RegexInvalid == <<"(">>

SOH == "x01"

ActionPrefix == <<SOH, "A", "C", "T", "I", "O", "N", " ">>

Networks == << <<"s", "l", "a", "c", "k">>, <<"d", "i", "s", "c", "o", "r", "d">> >>

\* re.compile(p): raises re.error on RegexInvalid.
re_compile(p) == [ok |-> p # RegexInvalid, pattern |-> p]

\* The group names a compiled pattern defines.
re_groupindex(p) ==
    CASE p = RegexAction -> {"action", "network", "nick", "text"}
      [] p = RegexPlain  -> {"network", "nick", "text"}
      [] p = RegexNoNick -> {"network", "text"}
      [] OTHER           -> {}

\* '.*' from offset i: '.' matches any unit but a newline.
RECURSIVE DotStar(_, _)
DotStar(s, i) ==
    IF i >= Len(s) \/ s[i + 1] = "\n" THEN <<>> ELSE <<s[i + 1]>> \o DotStar(s, i + 1)

\* '.+?> ' from offset i: the least k >= 1 units, none a newline, followed by "> ".
LazyNickLengths(s, i) ==
    {k \in 1..(Len(s) - i) :
        /\ \A j \in 1..k : s[i + j] # "\n"
        /\ StartsAt(s, i + k, <<">", " ">>)}

Least(S) == CHOOSE k \in S : \A j \in S : k <= j

\* '\((?P<network>(?:slack|discord))\)' then, with a nick, ' <(?P<nick>.+?)> ',
\* without one ' ', then '(?P<text>.*)', all from offset i.  The result is the
\* set of matches found: empty, or the one match the backtracking search takes.
MatchTail(s, i, withNick) ==
    LET nets == {n \in 1..Len(Networks) :
                    /\ StartsAt(s, i, <<"(">>)
                    /\ StartsAt(s, i + 1, Networks[n])
                    /\ StartsAt(s, i + 1 + Len(Networks[n]), <<")">>)}
    IN  IF nets = {} THEN {}
        ELSE LET n   == Least(nets)
                 net == Networks[n]
                 p   == i + 2 + Len(net)
             IN  IF withNick
                 THEN IF ~StartsAt(s, p, <<" ", "<">>) \/ LazyNickLengths(s, p + 2) = {}
                      THEN {}
                      ELSE LET k == Least(LazyNickLengths(s, p + 2))
                           IN  {[network |-> net,
                                 nick    |-> Slice(s, p + 2, p + 2 + k),
                                 text    |-> DotStar(s, p + 2 + k + 2)]}
                 ELSE IF ~StartsAt(s, p, <<" ">>) THEN {}
                      ELSE {[network |-> net, nick |-> <<>>, text |-> DotStar(s, p + 1)]}

\* The match object of p.match(s) as a function group name -> captured string,
\* in a set: {} stands for None (no match).
re_match(p, s) ==
    LET withNick == p # RegexNoNick
        names    == re_groupindex(p)
        Groups(action, t) ==
            [g \in names |-> CASE g = "action"  -> action
                               [] g = "network" -> t.network
                               [] g = "nick"    -> t.nick
                               [] OTHER         -> t.text]
        plain    == MatchTail(s, 0, withNick)
        acted    == IF StartsAt(s, 0, ActionPrefix)
                    THEN MatchTail(s, Len(ActionPrefix), withNick) ELSE {}
    IN  CASE p = <<>> -> {[g \in {} |-> <<>>]}
          [] p = RegexAction ->
                IF acted # {} THEN {Groups(ActionPrefix, t) : t \in acted}
                ELSE {Groups(<<>>, t) : t \in plain}
          [] OTHER -> {Groups(<<>>, t) : t \in plain}

---------------------------------------------------------------------------
(* WeeChat: info_get_hashtable("irc_message_parse", {'message': string}).  *)

\* The 0-based offset of the first unit u of s at or after offset i, or Len(s).
RECURSIVE Find(_, _, _)
Find(s, u, i) == IF i >= Len(s) \/ s[i + 1] = u THEN i ELSE Find(s, u, i + 1)

\* The first offset at or after i that holds no space.
RECURSIVE SkipSpaces(_, _)
SkipSpaces(s, i) == IF i < Len(s) /\ s[i + 1] = " " THEN SkipSpaces(s, i + 1) ELSE i

\* ":nick!user@host COMMAND #channel :text": host is the whole prefix, nick
\* its part before '!', text the trailing argument without its colon.
irc_message_parse(string) ==
    LET hasPrefix == StartsAt(string, 0, <<":">>)
        prefixEnd == IF hasPrefix THEN Find(string, " ", 0) ELSE 0
        host      == IF hasPrefix THEN Slice(string, 1, prefixEnd) ELSE <<>>
        cmdAt     == SkipSpaces(string, prefixEnd)
        cmdEnd    == Find(string, " ", cmdAt)
        chanAt    == SkipSpaces(string, cmdEnd)
        chanEnd   == Find(string, " ", chanAt)
        textAt    == SkipSpaces(string, chanEnd)
        textFrom  == IF StartsAt(string, textAt, <<":">>) THEN textAt + 1 ELSE textAt
    IN  [host    |-> host,
         nick    |-> Slice(host, 0, Find(host, "!", 0)),
         command |-> Slice(string, cmdAt, cmdEnd),
         channel |-> Slice(string, chanAt, chanEnd),
         text    |-> Slice(string, textFrom, Len(string))]

---------------------------------------------------------------------------
(* msg_cb: the irc_in_privmsg modifier.                                    *)

\* u"\u200b": its UTF-8 bytes under Python 2, one code point under Python 3.
ZeroWidthSpace(py2) == IF py2 THEN <<"xE2", "x80", "x8B">> ELSE <<"U200B">>

\* u"\u2026", likewise.
ellipsis(py2) == IF py2 THEN <<"xE2", "x80", "xA6">> ELSE <<"U2026">>

\* A filter that forgets to look at the sender's nick.
OriginMatchesAnyNick(item, modifier_data, parsed) ==
    /\ strip(item.server) = modifier_data
    /\ strip(item.channel) = parsed.channel

\* The filter of msg_cb: does the option group item match the message's origin?
OriginMatches(item, modifier_data, parsed) ==
    /\ strip(item.server) = modifier_data
    /\ strip(item.channel) = parsed.channel
    /\ InList(parsed.nick, MapStrip(split(item.bot_nicks, ",")))

\* result = [item for item in settings_lst if ...], in list order.
RECURSIVE Filter(_, _, _)
Filter(lst, modifier_data, parsed) ==
    IF lst = <<>> THEN <<>>
    ELSE (IF OriginMatches(Head(lst), modifier_data, parsed) THEN <<Head(lst)>> ELSE <<>>)
         \o Filter(Tail(lst), modifier_data, parsed)

\* The nick with zero-width spaces removed.
StripZeroWidth(nick, py2) == replace(nick, ZeroWidthSpace(py2), <<>>)

\* The truncation of a nick to intNickMaxLength units, an ellipsis appended.
Truncate(nick, intNickMaxLength, py2) ==
    IF intNickMaxLength = 0 THEN nick
    ELSE IF Len(nick) > intNickMaxLength
         THEN Slice(nick, 0, intNickMaxLength) \o ellipsis(py2)
         ELSE nick

\* ''.join(nickformatted.split())
RemoveWhitespace(nickformatted) == join(split_ws(nickformatted))

\* text = "[" + network + "] " + text
Body(network, text) == <<"[">> \o network \o <<"]", " ">> \o text

\* A format that puts the colon of a trailing argument before the text.
FormatMessageTrailing(parsed) ==
    <<":">> \o parsed.host \o <<" ">> \o parsed.command \o <<" ">> \o parsed.channel
            \o <<" ", ":">> \o parsed.text

\* ":{host} {command} {channel} {text}".format(**parsed)
FormatMessage(parsed) ==
    <<":">> \o parsed.host \o <<" ">> \o parsed.command \o <<" ">> \o parsed.channel
            \o <<" ">> \o parsed.text

\* parsed['host'].replace(bot, nickformatted) cut down to the nick in front.
ReplaceBotInFront(host, bot, nickformatted) ==
    IF StartsAt(host, 0, bot) THEN nickformatted \o Slice(host, Len(bot), Len(host))
    ELSE host

\* parsed['host'].replace(bot, nickformatted)
ReplaceBot(host, bot, nickformatted) == replace(host, bot, nickformatted)

\* An error line that shows only the first of the groups that matched.
AmbiguousErrorFirst(modifier_data, parsed, result) ==
    [prefix      |-> "error",
     server      |-> modifier_data,
     channel     |-> parsed.channel,
     nick        |-> parsed.nick,
     resultcount |-> Len(result),
     results     |-> <<result[1]>>]

\* The error line msg_cb prints when more than one option group matched.
AmbiguousError(modifier_data, parsed, result) ==
    [prefix      |-> "error",
     server      |-> modifier_data,
     channel     |-> parsed.channel,
     nick        |-> parsed.nick,
     resultcount |-> Len(result),
     results     |-> result]

\* What a return leaves: the returned string, what was printed, and the locals.
Returned(string, prnt, locals) ==
    [outcome |-> "return", value |-> string, prnt |-> prnt, locals |-> locals]

\* What an exception leaves: nothing is returned.
Raised(exc, locals) ==
    [outcome |-> "raise", exc |-> exc, prnt |-> <<>>, locals |-> locals]

\* The rewrite of a message once the regex matched (m is the match object).
Rewrite(parsed, bot, m, intNickMaxLength, py2, at) ==
    IF ~({"network", "nick", "text"} \subseteq DOMAIN m)
    THEN Raised("IndexError", [at EXCEPT !.stage = "group"])
    ELSE LET nick          == StripZeroWidth(m["nick"], py2)
             nickformatted == RemoveWhitespace(Truncate(nick, intNickMaxLength, py2))
             text          == Body(m["network"], m["text"])
             out           == [parsed EXCEPT !.text = text,
                                            !.host = ReplaceBot(parsed.host, bot, nickformatted)]
         IN  Returned(FormatMessage(out), <<>>,
                      [at EXCEPT !.stage = "rewritten", !.m = m, !.nick = nick,
                                 !.nickformatted = nickformatted, !.parsed = out])

\* msg_cb(data, modifier, modifier_data, string) on the list lst.
msg_cb(lst, modifier_data, string, py2) ==
    LET parsed == irc_message_parse(string)
        result == Filter(lst, modifier_data, parsed)
        at     == [stage |-> "filter", result |-> result, bot |-> parsed.nick,
                   intNickMaxLength |-> 0, m |-> <<>>, nick |-> <<>>,
                   nickformatted |-> <<>>, parsed |-> parsed]
    IN  IF Len(result) = 0 THEN Returned(string, <<>>, at)
        ELSE IF Len(result) > 1
        THEN Returned(string, <<AmbiguousError(modifier_data, parsed, result)>>, at)
        ELSE LET res        == result[Len(result)]
                 regularexp == re_compile(res.regex)
                 length     == IF res.nick_display_max_length # <<>>
                               THEN int(res.nick_display_max_length, py2)
                               ELSE [ok |-> TRUE, value |-> 0]
                 found      == re_match(regularexp.pattern, parsed.text)
                 here       == [at EXCEPT !.intNickMaxLength = length.value]
             IN  IF ~regularexp.ok THEN Raised("re.error", [at EXCEPT !.stage = "compile"])
                 ELSE IF ~length.ok THEN Raised("ValueError", [at EXCEPT !.stage = "int"])
                 ELSE IF regularexp.pattern = <<>>
                      THEN Returned(string, <<>>, [here EXCEPT !.stage = "empty"])
                 ELSE IF found = {}
                      THEN Returned(string, <<>>, [here EXCEPT !.stage = "nomatch"])
                 ELSE LET m == CHOOSE x \in found : TRUE
                      IN  Rewrite(parsed, parsed.nick, m, length.value, py2, here)

---------------------------------------------------------------------------
(* The option store (WeeChat's plugin options of the script) and the list  *)
(* of option groups the script builds from it.  The store maps the name of *)
(* an option, as w.config_get_plugin takes it ("A.server"), to its value;  *)
(* an option that is not set is not in the domain of the store.  The fixed *)
(* parts of a full option name, and the five option names the script       *)
(* reads, are units of their own: a name that a user types is made of      *)
(* characters.  Where names are compared letter by letter (the order and   *)
(* the masks of an infolist, the prefixes the script takes out of a name   *)
(* and the dot it splits a name at) the units are spelled out, so that a   *)
(* name means the same however its text is divided into units.             *)

SCRIPT_NAME == <<"format_bridge_bot_output">>

\* "plugins.var.python.{}.".format(SCRIPT_NAME)
SETTINGS_PREFIX == <<"plugins.var.", "python.">> \o SCRIPT_NAME \o <<".">>

\* The units of more than one character, in letters: the option names of a
\* group (none of them has a dot) and the parts of SETTINGS_PREFIX.
Spelled ==
    ("plugins.var." :> <<"p", "l", "u", "g", "i", "n", "s", ".", "v", "a", "r", ".">>)
    @@ ("python." :> <<"p", "y", "t", "h", "o", "n", ".">>)
    @@
    [format_bridge_bot_output |->
         <<"f", "o", "r", "m", "a", "t", "_", "b", "r", "i", "d", "g", "e", "_", "b", "o",
           "t", "_", "o", "u", "t", "p", "u", "t">>,
     server                  |-> <<"s", "e", "r", "v", "e", "r">>,
     channel                 |-> <<"c", "h", "a", "n", "n", "e", "l">>,
     bot_nicks               |-> <<"b", "o", "t", "_", "n", "i", "c", "k", "s">>,
     nick_display_max_length |-> <<"n", "i", "c", "k", "_", "d", "i", "s", "p", "l", "a",
                                   "y", "_", "m", "a", "x", "_", "l", "e", "n", "g", "t",
                                   "h">>,
     regex                   |-> <<"r", "e", "g", "e", "x">>]

OptionNames == <<"bot_nicks", "channel", "nick_display_max_length", "regex", "server">>

\* GroupName + ".server" and the like.
Key(GroupName, OptionName) == GroupName \o <<".", OptionName>>

\* The letters of one unit.
Letters(u) == IF u \in DOMAIN Spelled THEN Spelled[u] ELSE <<u>>

\* A name in letters.
RECURSIVE Spell(_)
Spell(name) ==
    IF name = <<>> THEN <<>> ELSE Letters(Head(name)) \o Spell(Tail(name))

\* The number of units at the head of name that spell the letters given; -1
\* when name does not begin with them.
RECURSIVE Spans(_, _)
Spans(name, letters) ==
    IF letters = <<>> THEN 0
    ELSE IF name = <<>> THEN 0 - 1
    ELSE LET head == Letters(Head(name))
         IN  IF ~StartsAt(letters, 0, head) THEN 0 - 1
             ELSE LET more == Spans(Tail(name), Slice(letters, Len(head), Len(letters)))
                  IN  IF more < 0 THEN 0 - 1 ELSE more + 1

\* The number of units at the head of name that spell old, however the two
\* are written; -1 when name does not begin with old.
Occurs(name, old) ==
    IF StartsAt(name, 0, old) THEN Len(old)
    ELSE IF Letters(Head(name))[1] # Letters(Head(old))[1] THEN 0 - 1
    ELSE Spans(name, Spell(old))

\* name.replace(old, ""): every occurrence is removed, left to right, and
\* what is left of the name stays as it was written.
RECURSIVE RemoveFrom(_, _)
RemoveFrom(name, old) ==
    IF name = <<>> THEN <<>>
    ELSE LET n == Occurs(name, old)
         IN  IF n > 0 THEN RemoveFrom(Slice(name, n, Len(name)), old)
             ELSE <<Head(name)>> \o RemoveFrom(Tail(name), old)

\* name.split(".")[0]: the letters before the first dot, all when there is none.
RECURSIVE BeforeDot(_)
BeforeDot(name) ==
    IF name = <<>> \/ Head(name) = "." THEN <<>>
    ELSE IF Head(name) \notin DOMAIN Spelled THEN <<Head(name)>> \o BeforeDot(Tail(name))
    ELSE LET head  == Spelled[Head(name)]
             first == split(head, ".")[1]
         IN  IF Len(first) < Len(head) THEN first ELSE head \o BeforeDot(Tail(name))

\* "." in name
HasDot(name) ==
    \E i \in 1..Len(name) :
        \/ name[i] = "."
        \/ name[i] \in DOMAIN Spelled /\ InList(".", Spelled[name[i]])

\* w.config_get_plugin(option): "" when not set.
config_get_plugin(opts, option) ==
    IF option \in DOMAIN opts THEN opts[option] ELSE <<>>

\* w.config_set_plugin(option, value)
config_set_plugin(opts, option, value) ==
    [k \in DOMAIN opts \cup {option} |-> IF k = option THEN value ELSE opts[k]]

\* w.config_unset_plugin(option)
config_unset_plugin(opts, option) == [k \in DOMAIN opts \ {option} |-> opts[k]]

\* The printable ASCII characters (but the double quote, the backquote and the backslash)
\* in the order of their codes, by which WeeChat keeps the options of a
\* section sorted.
Collation ==
    <<" ", "!", "#", "$", "%", "&", "'", "(", ")", "*", "+", ",", "-", ".", "/",
      "0", "1", "2", "3", "4", "5", "6", "7", "8", "9", ":", ";", "<", "=", ">", "?",
      "@", "A", "B", "C", "D", "E", "F", "G", "H", "I", "J", "K", "L", "M", "N", "O",
      "P", "Q", "R", "S", "T", "U", "V", "W", "X", "Y", "Z", "[", "]", "^", "_",
      "a", "b", "c", "d", "e", "f", "g", "h", "i", "j", "k", "l", "m", "n", "o",
      "p", "q", "r", "s", "t", "u", "v", "w", "x", "y", "z", "{", "|", "}", "~">>

\* The place of each character in that order.
Ord == [u \in {Collation[i] : i \in 1..Len(Collation)} |->
           CHOOSE i \in 1..Len(Collation) : Collation[i] = u]

\* a <= b for two names.
RECURSIVE NameLeq(_, _)
NameLeq(a, b) ==
    IF a = <<>> THEN TRUE
    ELSE IF b = <<>> THEN FALSE
    ELSE IF Head(a) = Head(b) THEN NameLeq(Tail(a), Tail(b))
    ELSE Ord[Head(a)] < Ord[Head(b)]

\* A name put in its place in a sorted sequence of names.
RECURSIVE Insert(_, _)
Insert(name, sorted) ==
    IF sorted = <<>> THEN <<name>>
    ELSE IF NameLeq(Spell(name), Spell(Head(sorted))) THEN <<name>> \o sorted
    ELSE <<Head(sorted)>> \o Insert(name, Tail(sorted))

\* The names of a set in their order.
RECURSIVE SortedNames(_)
SortedNames(S) ==
    IF S = {} THEN <<>>
    ELSE LET name == CHOOSE n \in S : TRUE
         IN  Insert(name, SortedNames(S \ {name}))

\* WeeChat's string_match(string, mask): a star in the mask stands for any
\* characters, every other character for itself.
RECURSIVE string_match(_, _)
string_match(string, mask) ==
    IF mask = <<>> THEN string = <<>>
    ELSE IF Head(mask) = "*"
         THEN \/ Tail(mask) = <<>>
              \/ string_match(string, Tail(mask))
              \/ string # <<>> /\ string_match(Tail(string), mask)
         ELSE /\ string # <<>>
              /\ Head(string) = Head(mask)
              /\ string_match(Tail(string), Tail(mask))

\* string_match of the full name of the option n, SETTINGS_PREFIX + n, and a
\* mask: letter by letter, past the prefix when the mask begins with it.
Matches(n, mask) ==
    IF mask = SETTINGS_PREFIX \o <<"*">> THEN TRUE
    ELSE IF StartsAt(mask, 0, SETTINGS_PREFIX)
    THEN string_match(Spell(n), Spell(Slice(mask, Len(SETTINGS_PREFIX), Len(mask))))
    ELSE string_match(Spell(SETTINGS_PREFIX \o n), Spell(mask))

\* w.infolist_get("option", "", mask) with the w.infolist_string(infolist,
\* "option_name") of each item: the options whose full name matches the mask,
\* named from the section on ("python.<script>.A.server").
infolist_get(opts, mask) ==
    LET found == {n \in DOMAIN opts : Matches(n, mask)}
        names == SortedNames(found)
    IN  [i \in 1..Len(names) |-> <<"python.">> \o SCRIPT_NAME \o <<".">> \o names[i]]

\* name.replace("python." + SCRIPT_NAME + ".", "")
OptionName(name) == RemoveFrom(name, <<"python.">> \o SCRIPT_NAME \o <<".">>)

\* settings_namedtuple(name = GroupName, server = ..., ...) read from the store.
settings_namedtuple(opts, GroupName) ==
    [name                    |-> GroupName,
     server                  |-> config_get_plugin(opts, Key(GroupName, "server")),
     channel                 |-> config_get_plugin(opts, Key(GroupName, "channel")),
     bot_nicks               |-> config_get_plugin(opts, Key(GroupName, "bot_nicks")),
     nick_display_max_length |->
         config_get_plugin(opts, Key(GroupName, "nick_display_max_length")),
     regex                   |-> config_get_plugin(opts, Key(GroupName, "regex"))]

\* not obj.server and not obj.channel and not obj.bot_nicks and not obj.regex
AllEmpty(obj) ==
    obj.server = <<>> /\ obj.channel = <<>> /\ obj.bot_nicks = <<>> /\ obj.regex = <<>>

\* [item for item in lst if item.name != GroupName]
RECURSIVE WithoutName(_, _)
WithoutName(lst, GroupName) ==
    IF lst = <<>> THEN <<>>
    ELSE (IF Head(lst).name # GroupName THEN <<Head(lst)>> ELSE <<>>)
         \o WithoutName(Tail(lst), GroupName)

\* What config_cb leaves: its return code (or exception), its local GroupName
\* and the list.
Notification(rc, GroupName, lst) ==
    [rc |-> rc, GroupName |-> GroupName, settings_lst |-> lst]

WEECHAT_RC_OK == "WEECHAT_RC_OK"

WEECHAT_RC_ERROR == "WEECHAT_RC_ERROR"

\* A change that appends without filtering the group out first.
ApplyChangeAppend(lst, opts, GroupName, dotted) ==
    IF ~dotted THEN Notification("IndexError", GroupName, lst)
    ELSE Notification(WEECHAT_RC_OK, GroupName,
                      IF AllEmpty(settings_namedtuple(opts, GroupName)) THEN lst
                      ELSE Append(lst, settings_namedtuple(opts, GroupName)))

\* Lines 242 to 274 of config_cb for the GroupName of line 241: a name
\* without a dot raises IndexError (OptionName = ...split(".")[1]) before the
\* list is touched.
ApplyChange(lst, opts, GroupName, dotted) ==
    IF ~dotted THEN Notification("IndexError", GroupName, lst)
    ELSE Notification(WEECHAT_RC_OK, GroupName,
                      IF AllEmpty(settings_namedtuple(opts, GroupName))
                      THEN WithoutName(lst, GroupName)
                      ELSE Append(WithoutName(lst, GroupName),
                                  settings_namedtuple(opts, GroupName)))

\* Lines 240 and 241 of config_cb for GroupNameAndOptionName, the name of
\* the option without SETTINGS_PREFIX.
ChangeOf(lst, opts, GroupNameAndOptionName) ==
    ApplyChange(lst, opts, BeforeDot(GroupNameAndOptionName), HasDot(GroupNameAndOptionName))

\* config_cb(data, option, value) for the full name of the option: the group
\* name is what stands before the first dot.
config_cb(lst, opts, option) == ChangeOf(lst, opts, RemoveFrom(option, SETTINGS_PREFIX))

\* The group names of the options set: optiongroups_lst as a set, for which
\* the order of the infolist is of no account.  Each is what stands before
\* the first dot of the infolist's option_name once every
\* "python." + SCRIPT_NAME + "." is taken out of it.
OptionGroups(opts) ==
    LET found == {n \in DOMAIN opts : Matches(n, SETTINGS_PREFIX \o <<"*">>)}
    IN  {BeforeDot(OptionName(<<"python.">> \o SCRIPT_NAME \o <<".">> \o n)) : n \in found}

\* list(set(optiongroups_lst)): the set in an order the script does not choose.
Orders(S) ==
    {o \in [1..Cardinality(S) -> S] : \A i, j \in 1..Cardinality(S) : o[i] = o[j] => i = j}

\* parse_config(): the new contents of settings_lst, for the order taken.
parse_config(opts, order) == [i \in 1..Len(order) |-> settings_namedtuple(opts, order[i])]

---------------------------------------------------------------------------
(* The commands.  WeeChat runs config_cb (hook_config) inside every        *)
(* config_set_plugin and config_unset_plugin, and goes on when the         *)
(* callback raises; st is the store, the list and the last config_cb: its  *)
(* group name and what it returned or raised.                              *)

\* config_set_plugin followed by the config_cb it triggers.
SetAndNotify(st, option, value) ==
    LET opts == config_set_plugin(st.options, option, value)
        cb   == config_cb(st.settings_lst, opts, SETTINGS_PREFIX \o option)
    IN  [options |-> opts, settings_lst |-> cb.settings_lst,
         notified |-> [GroupName |-> cb.GroupName, rc |-> cb.rc]]

\* config_unset_plugin followed by the config_cb it triggers: for an option
\* that is not set nothing is removed and no hook runs.
UnsetAndNotify(st, option) ==
    IF option \notin DOMAIN st.options THEN st
    ELSE LET opts == config_unset_plugin(st.options, option)
             cb   == config_cb(st.settings_lst, opts, SETTINGS_PREFIX \o option)
         IN  [options |-> opts, settings_lst |-> cb.settings_lst,
              notified |-> [GroupName |-> cb.GroupName, rc |-> cb.rc]]

\* argList.split(" ", 1): at most one split.
SplitOnce(s, sep) ==
    LET at == Find(s, sep, 0)
    IN  IF at >= Len(s) THEN <<s>> ELSE <<Slice(s, 0, at), Slice(s, at + 1, Len(s))>>

\* What a command leaves: its return code (or exception), the store and list.
Done(rc, prnt, st) == [rc |-> rc, prnt |-> prnt, st |-> st]

add_server_channel_botnicks_nicklength(st, argList) ==
    LET split_args == split(argList, " ")
        GroupName  == split_args[1]
        st1 == SetAndNotify(st,  Key(GroupName, "server"), split_args[2])
        st2 == SetAndNotify(st1, Key(GroupName, "channel"), split_args[3])
        st3 == SetAndNotify(st2, Key(GroupName, "bot_nicks"), split_args[4])
        st4 == SetAndNotify(st3, Key(GroupName, "nick_display_max_length"), split_args[5])
    IN  IF argList = <<>> THEN Done(WEECHAT_RC_ERROR, <<"No arguments supplied.">>, st)
        ELSE IF Len(split_args) # 5
             THEN Done(WEECHAT_RC_ERROR, <<"Wrong number of arguments.">>, st)
             ELSE Done(WEECHAT_RC_OK, <<>>, st4)

add_regex(st, argList) ==
    LET split_args == SplitOnce(argList, " ")
    IN  IF argList = <<>> THEN Done(WEECHAT_RC_ERROR, <<"No arguments supplied.">>, st)
        ELSE IF Len(split_args) # 2
             THEN Done(WEECHAT_RC_ERROR, <<"Wrong number of arguments.">>, st)
             ELSE Done(WEECHAT_RC_OK, <<>>,
                       SetAndNotify(st, Key(split_args[1], "regex"), split_args[2]))

\* The loop of remove_group_options over the infolist: names is what is left
\* of it.
RECURSIVE UnsetAll(_, _)
UnsetAll(st, names) ==
    IF names = <<>> THEN st
    ELSE UnsetAll(UnsetAndNotify(st, OptionName(Head(names))), Tail(names))

\* The options the command finds: those matching the group name, a dot and a
\* star.
GroupOptions(opts, GroupName) ==
    infolist_get(opts, SETTINGS_PREFIX \o GroupName \o <<".", "*">>)

\* With a wrong number of arguments the error line adds a string and the
\* integer intMaxArgs, which raises TypeError.
remove_group_options(st, argList) ==
    LET split_args == split(argList, " ")
        GroupName  == split_args[1]
        infolist   == GroupOptions(st.options, GroupName)
        removing   == [i \in 1..Len(infolist) |->
                          <<"Removing option: ">> \o OptionName(infolist[i])]
    IN  IF argList = <<>> THEN Done(WEECHAT_RC_ERROR, <<"No arguments supplied.">>, st)
        ELSE IF Len(split_args) # 1 THEN Done("TypeError", <<>>, st)
        ELSE Done(WEECHAT_RC_OK,
                  IF infolist = <<>> THEN <<"No group name found">> ELSE removing,
                  UnsetAll(st, infolist))

---------------------------------------------------------------------------
(* The inputs the model draws: option groups, option values, command       *)
(* lines and inbound messages.                                             *)

GroupNames == {<<"A">>, <<"B">>}

Server == <<"S">>

Channel == <<"#", "c">>

Bot == <<"K">>

\* Values an administrator sets, some with whitespace around them (a tab, so
\* that the commands, which split their line at spaces, can carry them too).
OptionValues ==
    [server                  |-> {Server \o <<"\t">>},
     channel                 |-> {<<"\t">> \o Channel},
     bot_nicks               |-> {<<"J", ",", "\t">> \o Bot},
     nick_display_max_length |-> {<<"2">>},
     regex                   |-> {RegexAction}]

\* The same, and the values of a careless administrator: a length that is no
\* number, a length with a sign and a space (a number for Python 2), a pattern
\* without the group 'nick', a pattern that does not compile.
FaultyValues ==
    [OptionValues EXCEPT !.nick_display_max_length = @ \cup {<<"x">>, <<"-", " ", "1">>},
                         !.regex = @ \cup {RegexNoNick, RegexInvalid}]

\* Names of a careless administrator: an option with no dot in its name, which
\* belongs to no group and to group A, and a group name with a dot.
DotlessOptions == {<<"A">>}

DottedGroups == {<<"A", ".", "b">>}

\* Every group: the argument of remove_group_options is a mask.
AnyGroup == <<"*">>

\* ' '.join(words)
RECURSIVE Words(_)
Words(words) ==
    IF Len(words) <= 1 THEN join(words)
    ELSE Head(words) \o <<" ">> \o Words(Tail(words))

\* Command lines: the well-formed ones, an empty one and one with too few or
\* too many words.
AddArgLists(G, V) ==
    {Words(<<g, s, c, b, n>>) : g \in G, s \in V.server, c \in V.channel,
                                b \in V.bot_nicks, n \in V.nick_display_max_length}
    \cup {<<>>, Words(<<<<"A">>, Server>>)}

RegexArgLists(G, V) == {Words(<<g, r>>) : g \in G, r \in V.regex} \cup {<<>>, <<"A">>}

RemoveArgLists(G) == {Words(<<g>>) : g \in G} \cup {<<>>, Words(<<<<"A">>, <<"B">>>>)}

\* The line of a PRIVMSG as the IRC server sends it.
Privmsg(nick, user, channel, text) ==
    <<":">> \o nick \o <<"!">> \o user \o <<"@", "h", " ", "P", "R", "I", "V", "M", "S", "G", " ">>
            \o channel \o <<" ", ":">> \o text

\* "(network) <nick> text", the format of the relay bot.
Relayed(network, nick, text) ==
    <<"(">> \o network \o <<")", " ", "<">> \o nick \o <<">", " ">> \o text

\* "\x01ACTION ...\x01": a /me of the relayed user.
Action(text) == ActionPrefix \o text \o <<SOH>>

Hi == <<"h", "i">>

\* The bot relaying, the bot chatting, and somebody else saying the same.
Messages ==
    {Privmsg(n, <<"u">>, Channel, t) :
        n \in {Bot, <<"X">>}, t \in {Relayed(Networks[1], <<"B">>, Hi), Hi}}

---------------------------------------------------------------------------
(* The state machine: the script is loaded with no option set; options are *)
(* then set and unset (by /set, /unset or the commands), the script may be *)
(* reloaded, and messages arrive.  The script's source is Python 2 (it     *)
(* compares with <>), so PY2 holds.                                        *)

Init ==
    /\ PY2 = TRUE
    /\ options = <<>>
    /\ settings_lst = <<>>
    /\ frame = [op |-> "register"]

St == [options |-> options, settings_lst |-> settings_lst,
       notified |-> [GroupName |-> <<>>, rc |-> WEECHAT_RC_OK]]

\* The frame of a change notification: the group name config_cb took from the
\* name of the option and what config_cb returned or raised.
Notify(st) ==
    [op |-> "config_cb", GroupName |-> st.notified.GroupName, rc |-> st.notified.rc]

\* The script is (re)loaded: parse_config() rebuilds the list.
Load ==
    \E order \in Orders(OptionGroups(options)) :
        /\ settings_lst' = parse_config(options, order)
        /\ frame' = [op |-> "parse_config"]
        /\ UNCHANGED <<PY2, options>>

\* /set plugins.var.python.format_bridge_bot_output.<group>.<option> <value>
SetOption(G, V) ==
    \E g \in G, i \in 1..Len(OptionNames) : \E value \in V[OptionNames[i]] :
        LET st == SetAndNotify(St, Key(g, OptionNames[i]), value)
        IN  /\ options' = st.options
            /\ settings_lst' = st.settings_lst
            /\ frame' = Notify(st)
            /\ UNCHANGED PY2

\* /set plugins.var.python.format_bridge_bot_output.<name> x, for a name that
\* is not one of the options of a group.
SetOther(names) ==
    \E option \in names :
        LET st == SetAndNotify(St, option, <<"x">>)
        IN  /\ options' = st.options
            /\ settings_lst' = st.settings_lst
            /\ frame' = Notify(st)
            /\ UNCHANGED PY2

\* /unset plugins.var.python.format_bridge_bot_output.<name>
UnsetOption ==
    \E option \in DOMAIN options :
        LET st == UnsetAndNotify(St, option)
        IN  /\ options' = st.options
            /\ settings_lst' = st.settings_lst
            /\ frame' = Notify(st)
            /\ UNCHANGED PY2

\* A command has run on argList: done is what it left.
Command(op, done, argList) ==
    /\ options' = done.st.options
    /\ settings_lst' = done.st.settings_lst
    /\ frame' = [op |-> op, argList |-> argList, rc |-> done.rc]
    /\ UNCHANGED PY2

AddServerChannelBotnicksNicklength(G, V) ==
    \E argList \in AddArgLists(G, V) :
        Command("add_server_channel_botnicks_nicklength",
                add_server_channel_botnicks_nicklength(St, argList), argList)

AddRegex(G, V) ==
    \E argList \in RegexArgLists(G, V) :
        Command("add_regex", add_regex(St, argList), argList)

RemoveGroupOptions(G) ==
    \E argList \in RemoveArgLists(G) :
        Command("remove_group_options", remove_group_options(St, argList), argList)

\* The modifier irc_in_privmsg runs msg_cb on a line from the server.
Modified(string) ==
    [op |-> "msg_cb", modifier_data |-> Server, string |-> string,
     call |-> msg_cb(settings_lst, Server, string, PY2)]

\* A PRIVMSG arrives from the server: the modifier runs.
Message(M) ==
    \E string \in M :
        /\ frame' = Modified(string)
        /\ UNCHANGED <<PY2, options, settings_lst>>

Next ==
    \/ Load
    \/ SetOption(GroupNames, OptionValues)
    \/ UnsetOption
    \/ AddServerChannelBotnicksNicklength(GroupNames, OptionValues)
    \/ AddRegex(GroupNames, OptionValues)
    \/ RemoveGroupOptions(GroupNames)
    \/ Message(Messages)

Spec == Init /\ [][Next]_vars

\* One option group, with the values and the names of a careless
\* administrator.
NextFaulty ==
    \/ Load
    \/ SetOption({<<"A">>}, FaultyValues)
    \/ SetOther(DotlessOptions)
    \/ UnsetOption
    \/ AddServerChannelBotnicksNicklength({<<"A">>}, FaultyValues)
    \/ AddRegex({<<"A">>} \cup DottedGroups, FaultyValues)
    \/ RemoveGroupOptions({<<"A">>, AnyGroup} \cup DottedGroups)
    \/ Message(Messages)

SpecFaulty == Init /\ [][NextFaulty]_vars

---------------------------------------------------------------------------
(* The rewrite on its own: one option group that is completely set, with   *)
(* every length up to MaxLength and relayed nicks of up to MaxNickLen      *)
(* characters.  The initial states hold a line in flight, and the one step *)
(* delivers it.                                                            *)

MaxNickLen == 3

MaxLength == 3

\* The characters of a relayed nick: a letter, a space, a zero-width space,
\* a letter that is not ASCII and a whitespace character that is not ASCII
\* (the no-break space U+00A0).
NickAlphabet == {"a", " ", "ZWSP", "EACUTE", "NBSP"}

\* The units of one character as the build holds it.
EncodeChar(c, py2) ==
    CASE c = "ZWSP"   -> ZeroWidthSpace(py2)
      [] c = "EACUTE" -> (IF py2 THEN <<"xC3", "xA9">> ELSE <<"U00E9">>)
      [] c = "NBSP"   -> (IF py2 THEN <<"xC2", "xA0">> ELSE <<"U00A0">>)
      [] OTHER        -> <<c>>

RECURSIVE Encode(_, _)
Encode(chars, py2) ==
    IF chars = <<>> THEN <<>> ELSE EncodeChar(Head(chars), py2) \o Encode(Tail(chars), py2)

NickChars == UNION {[1..n -> NickAlphabet] : n \in 1..MaxNickLen}

\* The bot relays a line or a /me of each nick; its user name is "u", or its
\* own nick again.
FormatMessages(py2) ==
    {Privmsg(Bot, user, Channel, Relayed(Networks[1], Encode(chars, py2), Hi)) :
        user \in {<<"u">>, Bot}, chars \in NickChars}
    \cup
    {Privmsg(Bot, <<"u">>, Channel, Action(Relayed(Networks[2], Encode(chars, py2), Hi))) :
        chars \in NickChars}

\* The lengths: none, 0 to MaxLength, and -1 in the two ways Python 2 reads.
FormatLengths ==
    {<<>>, <<"-", "1">>, <<"-", " ", "1">>} \cup {<<Digits[n + 1]>> : n \in 0..MaxLength}

\* The store with group A set for the bot: a length (none when empty) and a
\* regex.
FormatOptions(length, regex) ==
    LET A    == <<"A">>
        base == (Key(A, "server") :> Server) @@ (Key(A, "channel") :> Channel)
                @@ (Key(A, "bot_nicks") :> Bot) @@ (Key(A, "regex") :> regex)
    IN  IF length = <<>> THEN base
        ELSE base @@ (Key(A, "nick_display_max_length") :> length)

InitFormat ==
    /\ PY2 = TRUE
    /\ \E length \in FormatLengths, regex \in {RegexAction, RegexPlain} :
            /\ options = FormatOptions(length, regex)
            /\ settings_lst = parse_config(options, << <<"A">> >>)
    /\ \E string \in FormatMessages(PY2) : frame = [op |-> "irc_in_privmsg", string |-> string]

\* The line in flight reaches the modifier.
Deliver ==
    /\ frame.op = "irc_in_privmsg"
    /\ frame' = Modified(frame.string)
    /\ UNCHANGED <<PY2, options, settings_lst>>

NextFormat == Deliver

SpecFormat == InitFormat /\ [][NextFormat]_vars

---------------------------------------------------------------------------
(* Properties.  They speak of the last call of msg_cb: its arguments, its  *)
(* result and its locals, as frame holds them.                             *)

IsMsg == frame.op = "msg_cb"

\* The inbound message as WeeChat parses it.
In == irc_message_parse(frame.string)

\* The bot nicks of a rule: the comma separated tokens, trimmed.
BotNickTokens(rule) ==
    LET tokens == split(rule.bot_nicks, ",")
    IN  {strip(tokens[i]) : i \in 1..Len(tokens)}

\* The rules of the list whose scope holds the origin of the inbound message.
Matching ==
    {i \in 1..Len(settings_lst) :
        /\ strip(settings_lst[i].server) = frame.modifier_data
        /\ strip(settings_lst[i].channel) = In.channel
        /\ In.nick \in BotNickTokens(settings_lst[i])}

\* msg_cb returned its argument as it was.
Unchanged == frame.call.outcome = "return" /\ frame.call.value = frame.string

\* The one rule that matches, when exactly one does.
TheRule == settings_lst[CHOOSE i \in Matching : TRUE]

\* C1: a message whose origin matches no rule is returned unchanged.
C1_NoMatchUnchanged == (IsMsg /\ Matching = {}) => Unchanged

\* C1 happens: the relay format, said in the channel of two rules by a nick
\* that is no bot of theirs.
C1_Witness ==
    /\ IsMsg /\ Matching = {} /\ Unchanged
    /\ Len(settings_lst) = 2
    /\ \A i \in 1..Len(settings_lst) :
            /\ strip(settings_lst[i].server) = frame.modifier_data
            /\ strip(settings_lst[i].channel) = In.channel
            /\ settings_lst[i].regex = RegexAction
    /\ re_match(RegexAction, In.text) # {}

\* C2: a message whose origin matches two or more rules is returned unchanged,
\* and one error line is printed that gives the server, the channel, the nick
\* and the names of all the rules that matched.
C2_AmbiguousUnchangedAndReported ==
    (IsMsg /\ Cardinality(Matching) >= 2) =>
        /\ Unchanged
        /\ Len(frame.call.prnt) = 1
        /\ LET line == frame.call.prnt[1]
           IN  /\ line.prefix = "error"
               /\ line.server = frame.modifier_data
               /\ line.channel = In.channel
               /\ line.nick = In.nick
               /\ line.resultcount = Cardinality(Matching)
               /\ {line.results[k].name : k \in 1..Len(line.results)}
                    = {settings_lst[i].name : i \in Matching}

\* C2 happens: two rules match a line in the relay format, which either would
\* rewrite.
C2_Witness ==
    /\ IsMsg /\ Cardinality(Matching) = 2
    /\ \A i \in Matching : settings_lst[i].regex = RegexAction
    /\ re_match(RegexAction, In.text) # {}
    /\ frame.call.prnt # <<>>

\* C3: with exactly one matching rule whose pattern is empty, or is a pattern
\* that does not match the body, the message is returned unchanged and nothing
\* is printed.
C3_InertOrNoMatchUnchanged ==
    (/\ IsMsg /\ Cardinality(Matching) = 1
     /\ \/ TheRule.regex = <<>>
        \/ re_compile(TheRule.regex).ok /\ re_match(TheRule.regex, In.text) = {})
    => (Unchanged /\ frame.call.prnt = <<>>)

\* C4: with exactly one matching rule (its length option empty or a number)
\* whose pattern matches the body but lacks one of the groups network, nick
\* and text, msg_cb prints a diagnostic and returns the message unchanged.
C4_MissingGroupReported ==
    (/\ IsMsg /\ Cardinality(Matching) = 1
     /\ TheRule.nick_display_max_length = <<>> \/ int(TheRule.nick_display_max_length, PY2).ok
     /\ re_compile(TheRule.regex).ok /\ TheRule.regex # <<>>
     /\ re_match(TheRule.regex, In.text) # {}
     /\ ~({"network", "nick", "text"} \subseteq re_groupindex(TheRule.regex)))
    => (Unchanged /\ frame.call.prnt # <<>>)

\* C5: whatever the options hold, msg_cb returns one message for every
\* message it is given: no exception leaves it.
C5_AlwaysOneOutput == IsMsg => frame.call.outcome = "return"

---------------------------------------------------------------------------
(* Properties of the rewrite.                                              *)

\* The last call rewrote the message; Locals are its locals at the return.
Rewritten == IsMsg /\ frame.call.locals.stage = "rewritten"

Locals == frame.call.locals

\* C6: a rewritten message is ':' host ' ' command ' ' channel ' ' body, with
\* the command and the channel of the inbound message and the body
\* '[' network '] ' text of the captured network and text, whatever the
\* action group captured.
C6_OutboundShape ==
    Rewritten =>
        frame.call.value =
            <<":">> \o Locals.parsed.host \o <<" ">> \o In.command \o <<" ">> \o In.channel
                    \o <<" ">> \o <<"[">> \o Locals.m["network"] \o <<"]", " ">>
                    \o Locals.m["text"]

\* C6 happens: a /me was rewritten and the action group captured its marker.
C6_Witness ==
    /\ Rewritten
    /\ "action" \in DOMAIN Locals.m
    /\ Locals.m["action"] = ActionPrefix
    /\ Locals.m["network"] = Networks[2]
    /\ Locals.m["text"] = Hi \o <<SOH>>

\* s.split(sep) for a separator of one or more units.
RECURSIVE SplitOn(_, _, _)
SplitOn(s, sep, cur) ==
    IF s = <<>> THEN <<cur>>
    ELSE IF StartsAt(s, 0, sep)
         THEN <<cur>> \o SplitOn(Slice(s, Len(sep), Len(s)), sep, <<>>)
         ELSE SplitOn(Tail(s), sep, Append(cur, Head(s)))

\* glue.join(pieces)
RECURSIVE JoinWith(_, _)
JoinWith(pieces, glue) ==
    IF Len(pieces) <= 1 THEN join(pieces)
    ELSE Head(pieces) \o glue \o JoinWith(Tail(pieces), glue)

\* C7 as claimed: the outbound host is the finalized nick followed by the
\* inbound host after the relay's nick, unchanged.
C7_Original_RestOfHostKept ==
    Rewritten =>
        Locals.parsed.host =
            Locals.nickformatted \o Slice(In.host, Len(In.nick), Len(In.host))

\* C7 amended: every occurrence of the relay's nick in the inbound host is
\* replaced by the finalized nick, in the user and host parts too; the
\* outbound host begins with the finalized nick and what lies between the
\* occurrences is kept.
C7_EveryOccurrenceReplaced ==
    Rewritten =>
        /\ Locals.parsed.host = JoinWith(SplitOn(In.host, In.nick, <<>>), Locals.nickformatted)
        /\ StartsAt(Locals.parsed.host, 0, Locals.nickformatted)

\* C7 happens: the bot's user name is its nick, and both were replaced.
C7_Witness ==
    /\ Rewritten
    /\ In.host = Bot \o <<"!">> \o Bot \o <<"@", "h">>
    /\ Locals.nickformatted = <<"a">>
    /\ Locals.parsed.host = <<"a", "!", "a", "@", "h">>

\* The characters the units of a relayed nick stand for.
Decode(units) ==
    IF units = <<>> THEN <<>>
    ELSE CHOOSE chars \in NickChars : Encode(chars, PY2) = units

\* The number of characters in units: UTF-8 continuation bytes do not count.
CharLen(units) ==
    Cardinality({i \in 1..Len(units) : units[i] \notin {"x80", "x8B", "xA0", "xA6", "xA9"}})

\* units ends with the ellipsis.
EndsWithEllipsis(units) ==
    /\ Len(units) >= Len(ellipsis(PY2))
    /\ StartsAt(units, Len(units) - Len(ellipsis(PY2)), ellipsis(PY2))

\* The extracted nick without the characters in drop, in the build's units.
NickWithout(drop) ==
    Encode(SelectSeq(Decode(Locals.m["nick"]), LAMBDA c : c \notin drop), PY2)

\* The whitespace characters of the nick alphabet.
WhitespaceChars == {" ", "NBSP"}

\* C8: with N > 0 and an extracted nick of more than N characters (its
\* zero-width spaces not counted) the finalized nick is N + 1 characters long
\* and ends with the ellipsis; with N = 0, or N > 0 and no more than N
\* characters, it is the extracted nick without its zero-width spaces and
\* whitespace.
C8_LengthNPlusOne ==
    Rewritten =>
        LET N == Locals.intNickMaxLength
            L == CharLen(NickWithout({"ZWSP"}))
        IN  /\ (N > 0 /\ L > N) =>
                /\ CharLen(Locals.nickformatted) = N + 1
                /\ EndsWithEllipsis(Locals.nickformatted)
            /\ (N = 0 \/ (N > 0 /\ L <= N)) =>
                Locals.nickformatted = NickWithout({"ZWSP"} \cup WhitespaceChars)

\* The part of C8 that does not depend on whitespace: what C8 says of the
\* nicks that hold none.
C8_LengthNPlusOneWithoutWhitespace ==
    (Rewritten /\ \A i \in 1..Len(Decode(Locals.m["nick"])) :
                      Decode(Locals.m["nick"])[i] \notin WhitespaceChars)
        => C8_LengthNPlusOne

\* C9: the finalized nick holds no whitespace character and no zero-width
\* space, whatever units the build holds its characters in.
C9_NoWhitespaceNoZeroWidth ==
    Rewritten =>
        /\ \A i \in 1..Len(Locals.nickformatted) : ~IsSpace(Locals.nickformatted[i])
        /\ \A c \in WhitespaceChars \cup {"ZWSP"} :
              \A i \in 0..Len(Locals.nickformatted) :
                  ~StartsAt(Locals.nickformatted, i, EncodeChar(c, PY2))

\* The part of C9 that the script keeps: no ASCII whitespace and no
\* zero-width space is left in the finalized nick.
C9_NoAsciiWhitespaceNoZeroWidth ==
    Rewritten =>
        /\ \A i \in 1..Len(Locals.nickformatted) : Locals.nickformatted[i] \notin AsciiSpace
        /\ \A i \in 0..Len(Locals.nickformatted) :
              ~StartsAt(Locals.nickformatted, i, ZeroWidthSpace(PY2))

---------------------------------------------------------------------------
(* Properties of the list of option groups.                                *)

\* The positions of the list that hold a rule named GroupName.
Named(lst, GroupName) == {i \in 1..Len(lst) : lst[i].name = GroupName}

NoDuplicateNames ==
    \A i, j \in 1..Len(settings_lst) :
        settings_lst[i].name = settings_lst[j].name => i = j

\* The group a change notification was for: what stands before the first dot
\* of the option's name, after a step of /set or /unset in which config_cb
\* returned; nothing after any other step.
Notified(f) ==
    IF f.op = "config_cb" /\ f.rc = WEECHAT_RC_OK THEN {f.GroupName} ELSE {}

\* The options of a group that decide whether it is kept, as the store has them.
Scope(opts, GroupName) ==
    {o \in {"server", "channel", "bot_nicks", "regex"} :
        Key(GroupName, o) \in DOMAIN opts /\ opts[Key(GroupName, o)] # <<>>}

\* The rule of a group as the store has it.
Current(opts, GroupName) ==
    [name |-> GroupName] @@
    [o \in {"server", "channel", "bot_nicks", "nick_display_max_length", "regex"} |->
        IF Key(GroupName, o) \in DOMAIN opts THEN opts[Key(GroupName, o)] ELSE <<>>]

\* C10 as claimed: no two rules of the list have the same name, and a change
\* notification for a name the list holds leaves exactly one rule with that
\* name, the new one.
C10_Original_ExactlyOne ==
    /\ []NoDuplicateNames
    /\ [][\A g \in Notified(frame') :
            Named(settings_lst, g) # {} =>
                /\ Cardinality(Named(settings_lst', g)) = 1
                /\ \A i \in Named(settings_lst', g) : settings_lst'[i] = Current(options', g)]_vars

\* C10 amended: no two rules of the list have the same name, and a change
\* notification for a name the list holds leaves exactly one rule with that
\* name, the new one, unless server, channel, bot_nicks and regex of the group
\* are all empty now: then it leaves none.
C10_UniqueNames ==
    /\ []NoDuplicateNames
    /\ [][\A g \in Notified(frame') :
            Named(settings_lst, g) # {} =>
                /\ Cardinality(Named(settings_lst', g)) = IF Scope(options', g) = {} THEN 0 ELSE 1
                /\ \A i \in Named(settings_lst', g) : settings_lst'[i] = Current(options', g)]_vars

\* C10 happens: group A, the first of two rules, was changed: it is one rule
\* again, and the last of the list.
C10_Witness ==
    /\ Notified(frame) = {<<"A">>}
    /\ Len(settings_lst) = 2
    /\ settings_lst[2].name = <<"A">>
    /\ Cardinality(Scope(options, <<"A">>)) >= 2

---------------------------------------------------------------------------
(* Vacuous rules.                                                          *)

\* The rules of the list whose server, channel, bot_nicks and regex are all
\* empty, whatever their nick_display_max_length.
VacuousRules(lst) == {i \in 1..Len(lst) : AllEmpty(lst[i])}

\* C11: after parse_config() and after config_cb() the list holds no rule whose
\* server, channel, bot_nicks and regex are all empty.
C11_NoVacuousRule ==
    frame.op \in {"parse_config", "config_cb"} => VacuousRules(settings_lst) = {}

\* The half of C11 that is about config_cb: a change notification for a group
\* leaves no vacuous rule of that group.
NotifiedGroupNotVacuous ==
    \A g \in Notified(frame) :
        \A i \in Named(settings_lst, g) : ~AllEmpty(settings_lst[i])

\* parse_config() has made a rule of a group that has nothing but a
\* nick_display_max_length in the store.
LoadedVacuousRule ==
    /\ frame.op = "parse_config"
    /\ \E i \in VacuousRules(settings_lst) :
           settings_lst[i].nick_display_max_length # <<>>

---------------------------------------------------------------------------
(* The commands step by step.  A command sets or unsets several options,   *)
(* and WeeChat runs config_cb inside every one of these calls, so the list *)
(* changes several times while one command runs.  A frame with the field   *)
(* todo is a command that is running: todo holds the calls it has still to *)
(* make.  The script does nothing to keep a message from being handled     *)
(* while a command runs: when WeeChat calls the modifier is not the        *)
(* script's to decide, so the modifier may run between any two calls.  The *)
(* model follows one command at a time.                                    *)

\* The two lines an administrator gives to the add command, one after the
\* other: every option of the second differs from the first.
Versions ==
    {[server |-> {Server}, channel |-> {Channel}, bot_nicks |-> {Bot},
      nick_display_max_length |-> {<<"2">>}, regex |-> {RegexAction}],
     [server |-> {Server \o <<"\t">>}, channel |-> {<<"\t">> \o Channel},
      bot_nicks |-> {<<"J", ",", "\t">> \o Bot},
      nick_display_max_length |-> {<<"1">>}, regex |-> {RegexAction}]}

\* The group of the commands that are followed call by call.
StepGroups == {<<"A">>}

StepArgLists(op) ==
    CASE op = "add_server_channel_botnicks_nicklength" ->
             UNION {AddArgLists(StepGroups, v) : v \in Versions}
      [] op = "add_regex" -> RegexArgLists(StepGroups, OptionValues)
      [] op = "remove_group_options" -> RemoveArgLists(StepGroups \cup {AnyGroup})

\* The command as a whole.
Handler(op, st, argList) ==
    CASE op = "add_server_channel_botnicks_nicklength" ->
             add_server_channel_botnicks_nicklength(st, argList)
      [] op = "add_regex" -> add_regex(st, argList)
      [] op = "remove_group_options" -> remove_group_options(st, argList)

\* The calls of w.config_set_plugin and w.config_unset_plugin a command makes
\* once its arguments are accepted, in the order of its lines.
Todo(op, st, argList) ==
    CASE op = "add_server_channel_botnicks_nicklength" ->
             LET split_args == split(argList, " ")
                 GroupName  == split_args[1]
             IN  <<[option |-> Key(GroupName, "server"), value |-> split_args[2]],
                   [option |-> Key(GroupName, "channel"), value |-> split_args[3]],
                   [option |-> Key(GroupName, "bot_nicks"), value |-> split_args[4]],
                   [option |-> Key(GroupName, "nick_display_max_length"),
                    value |-> split_args[5]]>>
      [] op = "add_regex" ->
             LET split_args == SplitOnce(argList, " ")
             IN  <<[option |-> Key(split_args[1], "regex"), value |-> split_args[2]]>>
      [] op = "remove_group_options" ->
             LET GroupName == split(argList, " ")[1]
                 infolist  == GroupOptions(st.options, GroupName)
             IN  [i \in 1..Len(infolist) |-> [option |-> OptionName(infolist[i])]]

\* A command is between two of its calls.
Running(f) == "todo" \in DOMAIN f

\* The command that is running, as a frame keeps it.
Pending(f) == [cmd |-> f.cmd, argList |-> f.argList, st0 |-> f.st0, todo |-> f.todo]

\* The script is reloaded.
Reload == ~Running(frame) /\ Load

\* /set and /unset change one option: one call and its notification.
Change == ~Running(frame) /\ SetOption(StepGroups, OptionValues)
Clear == ~Running(frame) /\ UnsetOption

\* A command is called: it returns at once when it rejects its arguments.
Invoke(op) ==
    /\ ~Running(frame)
    /\ \E argList \in StepArgLists(op) :
           LET done == Handler(op, St, argList)
           IN  frame' = IF done.rc = WEECHAT_RC_OK
                        THEN [op |-> op, cmd |-> op, argList |-> argList, st0 |-> St,
                              todo |-> Todo(op, St, argList)]
                        ELSE [op |-> op, argList |-> argList, rc |-> done.rc]
    /\ UNCHANGED <<PY2, options, settings_lst>>

\* The running command makes its next call, config_cb included, or returns.
Step ==
    /\ Running(frame)
    /\ IF frame.todo = <<>>
       THEN /\ frame' = [op |-> frame.cmd, argList |-> frame.argList, rc |-> WEECHAT_RC_OK]
            /\ UNCHANGED <<options, settings_lst>>
       ELSE LET call == Head(frame.todo)
                st   == IF "value" \in DOMAIN call
                        THEN SetAndNotify(St, call.option, call.value)
                        ELSE UnsetAndNotify(St, call.option)
            IN  /\ options' = st.options
                /\ settings_lst' = st.settings_lst
                /\ frame' = [op |-> frame.cmd] @@ [Pending(frame) EXCEPT !.todo = Tail(@)]
    /\ UNCHANGED PY2

\* A PRIVMSG arrives from the server: the modifier runs msg_cb on the list
\* as it is, also when a command has calls still to make.
Modifier ==
    /\ \E string \in Messages :
           frame' = IF Running(frame) THEN Modified(string) @@ Pending(frame)
                    ELSE Modified(string)
    /\ UNCHANGED <<PY2, options, settings_lst>>

NextSteps ==
    \/ Reload
    \/ Change
    \/ Clear
    \/ Invoke("add_server_channel_botnicks_nicklength")
    \/ Invoke("add_regex")
    \/ Invoke("remove_group_options")
    \/ Step
    \/ Modifier

SpecSteps == Init /\ [][NextSteps]_vars

\* A command that is about to return has left what the command as a whole
\* leaves.
StepsAgree ==
    (Running(frame) /\ frame.todo = <<>>) =>
        LET st == Handler(frame.cmd, frame.st0, frame.argList).st
        IN  options = st.options /\ settings_lst = st.settings_lst

---------------------------------------------------------------------------
(* No partially updated rule is matched against.                           *)

\* The rules the running command found and the rules it leaves.
OldRules(f) == {f.st0.settings_lst[i] : i \in 1..Len(f.st0.settings_lst)}
NewRules(f) ==
    LET lst == Handler(f.cmd, f.st0, f.argList).st.settings_lst
    IN  {lst[i] : i \in 1..Len(lst)}

C12_RewrittenByWholeRule ==
    (frame.op = "msg_cb" /\ Running(frame)
        /\ frame.call.locals.stage = "rewritten") =>
        \A i \in 1..Len(settings_lst) :
            OriginMatches(settings_lst[i], frame.modifier_data,
                          irc_message_parse(frame.string))
                => settings_lst[i] \in OldRules(frame) \cup NewRules(frame)

---------------------------------------------------------------------------
(* The life of a rule: /set and /unset, each with its change notification. *)

\* A group with no option in the store has no rule in the list.
ClearedGroupsHaveNoRule ==
    \A g \in GroupNames :
        g \notin OptionGroups(options) => Named(settings_lst, g) = {}

\* The change notification has left the rules of the other groups as they
\* were, and in their order.
OthersUnchanged(g) == WithoutName(settings_lst', g) = WithoutName(settings_lst, g)

\* C13, with the rule of the specification that a vacuous rule is not
\* retained: whenever an option of group G is set or unset, the list
\* afterwards holds one rule named G with the store's values of the five
\* options, or no rule named G if server, channel, bot_nicks and regex are all
\* empty; the rules of other names are left as they were; and a group with no
\* option left in the store has no rule.
C13_CreatedReplacedOrRemoved ==
    /\ []ClearedGroupsHaveNoRule
    /\ [][\A g \in Notified(frame') :
            /\ OthersUnchanged(g)
            /\ Cardinality(Named(settings_lst', g)) =
                   IF Scope(options', g) = {} THEN 0 ELSE 1
            /\ \A i \in Named(settings_lst', g) :
                   settings_lst'[i] = Current(options', g)]_vars

=============================================================================
